---- MODULE Spec2Model ----
(***************************************************************************)
(* Vestigo: document / chunk store with a lexical (FTS) index and one ANN  *)
(* graph per embedding model.  The model follows controller/controller.go  *)
(* (the echo/v5 controller with embedding indexes), utils.WithTx and the   *)
(* sqlc queries, one action per statement of each handler.                 *)
(***************************************************************************)
EXTENDS Integers, Sequences, FiniteSets, Bags, TLC

VARIABLES
    db,       \* committed relational state: document, text_chunk, text_chunk_fts, text_embedding
    tx,       \* per request: the open *sql.Tx (its view of the tables), or NoTx
    wlock,    \* the request holding the database write lock, or 0
    ann,      \* c.embeddingIndexes: model id -> keys of the nodes of its graph
    nextId,   \* source of fresh chunk ids (uuid.NewRandom)
    proc,     \* per request goroutine: handler, position, parameters, locals, response
    mode,     \* how many requests the server is handling at once (1 or 2)
    left,     \* requests the run still admits (-1: no limit)
    srv,      \* the server process: listening, shutting down, closing the controller
    calc      \* the call of a pure function under study: its arguments and result

vars == <<db, tx, wlock, ann, nextId, proc, mode, left, srv, calc>>

----------------------------------------------------------------------------
(* Bounds and small input sets *)

MaxIds == 3          \* chunk ids that uuid.NewRandom hands out in one run
MaxRequests == 2     \* requests admitted in a run that starts from a prepared database
IntBits == 5         \* width of int: strconv.Atoi reports a range error beyond it

Procs == {1, 2}
Docs == {"d1", "d2"}
Models == {"m1", "m2"}
ChunkIds == 1..MaxIds

\* the "texts" arrays of NewDocument requests, the "content" of NewTextChunk requests
TextLists == {<<>>, <<"the Fox">>, <<"the Fox", "lazy dog">>}
AddedTexts == {"lazy dog"}

----------------------------------------------------------------------------
(* Text pipeline of createTextChunks: tokenize, normalize, join *)

Segment(text) ==
    CASE text = "" -> <<>>
      [] text = "the" -> <<"the">>
      [] text = "the Fox" -> <<"the", "Fox">>
      [] text = "dog" -> <<"dog">>
      [] text = "a dog the Fox" -> <<"a", "dog", "the", "Fox">>
      [] text = "the dog a" -> <<"the", "dog", "a">>
      [] OTHER -> <<"lazy", "dog">>

StopWords == {"the", "a"}

\* fault: filtering stops at the first stop word and drops the rest of the tokens
RECURSIVE filterStopWords_UntilFirst(_)
filterStopWords_UntilFirst(tokens) ==
    IF tokens = <<>> THEN <<>>
    ELSE IF Head(tokens) \in StopWords THEN <<>>
    ELSE <<Head(tokens)>> \o filterStopWords_UntilFirst(Tail(tokens))

RECURSIVE filterStopWords(_)
filterStopWords(tokens) ==
    IF tokens = <<>> THEN <<>>
    ELSE IF Head(tokens) \in StopWords THEN filterStopWords(Tail(tokens))
    ELSE <<Head(tokens)>> \o filterStopWords(Tail(tokens))

Tokenize(text) == filterStopWords(Segment(text))

\* Tokenize of a tokenizer built by NewGSETokenizer(filterStopWord)
GSETokenize(text, filterStopWord) ==
    LET tokens == Segment(text)
    IN  IF filterStopWord THEN filterStopWords(tokens) ELSE tokens

Normalize(token) == IF token = "Fox" THEN "fox" ELSE token

\* fault: only the normalized tokens are indexed
SegContent_NormalizedOnly(text) ==
    LET tokenizedText == Tokenize(text)
    IN  [i \in 1..Len(tokenizedText) |-> Normalize(tokenizedText[i])]

SegContent(text) ==
    LET tokenizedText == Tokenize(text)
        tokenizedNormalizedText == [i \in 1..Len(tokenizedText) |-> Normalize(tokenizedText[i])]
    IN  tokenizedText \o tokenizedNormalizedText

----------------------------------------------------------------------------
(* The relational tables and the sqlc statements, as functions of a table state *)

EmptyDB == [docs |-> {}, chunks |-> {}, fts |-> EmptyBag, emb |-> EmptyBag]

BagKeep(b, kept) == [e \in kept |-> b[e]]

ChunkIdsOfDoc(s, docId) == {c.id : c \in {x \in s.chunks : x.doc = docId}}

SqlGetDocument(s, docId) == docId \in s.docs

SqlNewDocument(s, docId) == [s EXCEPT !.docs = @ \cup {docId}]

\* fault: the statement has no WHERE clause
SqlDeleteDocument_All(s, docId) == [s EXCEPT !.docs = {}]

SqlDeleteDocument(s, docId) == [s EXCEPT !.docs = @ \ {docId}]

SqlListTextChunkIdByDocumentID(s, docId) == ChunkIdsOfDoc(s, docId)

SqlDeleteTextEmbeddingsByDocumentID(s, docId) ==
    [s EXCEPT !.emb = BagKeep(@, {e \in DOMAIN @ : e.chunk \notin ChunkIdsOfDoc(s, docId)})]

\* fault: the FTS rows of a deleted document are left behind
SqlDeleteTextChunkFTSByDocumentID_Keep(s, docId) == s

SqlDeleteTextChunkFTSByDocumentID(s, docId) ==
    [s EXCEPT !.fts = BagKeep(@, {f \in DOMAIN @ : f.id \notin ChunkIdsOfDoc(s, docId)})]

\* fault: the chunk rows of a deleted document are left behind
SqlDeleteTextChunksByDocumentID_Keep(s, docId) == s

SqlDeleteTextChunksByDocumentID(s, docId) ==
    [s EXCEPT !.chunks = {c \in @ : c.doc # docId}]

\* fault: the statement has no WHERE clause
SqlDeleteTextEmbeddingsByTextChunkID_All(s, id) == [s EXCEPT !.emb = EmptyBag]

SqlDeleteTextEmbeddingsByTextChunkID(s, id) ==
    [s EXCEPT !.emb = BagKeep(@, {e \in DOMAIN @ : e.chunk # id})]

\* fault: the FTS row of a deleted chunk is left behind
SqlDeleteTextChunkFTSByID_Keep(s, id) == s

SqlDeleteTextChunkFTSByID(s, id) ==
    [s EXCEPT !.fts = BagKeep(@, {f \in DOMAIN @ : f.id # id})]

SqlDeleteTextChunk(s, id) ==
    [s EXCEPT !.chunks = {c \in @ : c.id # id}]

SqlNewTextChunk(s, id, docId, text) ==
    [s EXCEPT !.chunks = @ \cup {[id |-> id, doc |-> docId, content |-> text,
                                  seg |-> SegContent(text)]}]

SqlInsertTextChunkFTS(s, id, seg) ==
    [s EXCEPT !.fts = @ (+) SetToBag({[id |-> id, seg |-> seg]})]

\* fault: the embedding row is not written
SqlNewTextEmbedding_Skip(s, modelId, id) == s

SqlNewTextEmbedding(s, modelId, id) ==
    [s EXCEPT !.emb = @ (+) SetToBag({[model |-> modelId, chunk |-> id]})]

\* PRIMARY KEY of document and of text_chunk
DocKeyFree(s, docId) == docId \notin s.docs
ChunkKeyFree(s, id) == \A c \in s.chunks : c.id # id

----------------------------------------------------------------------------
(* Transactions: utils.WithTx over a SQLite database in WAL mode *)

NoTx == [st |-> "none", view |-> EmptyDB, stale |-> FALSE]

\* the tables as the transaction of p sees them: its snapshot is taken by its
\* first statement
View(p) == IF tx[p].st = "begun" THEN db ELSE tx[p].view

\* a statement that writes needs the write lock and a snapshot that is still current
CanWrite(p) == wlock \in {0, p} /\ ~tx[p].stale

TxRead(p) ==
    /\ tx' = [tx EXCEPT ![p] = [@ EXCEPT !.st = IF @ = "begun" THEN "read" ELSE @,
                                         !.view = View(p)]]
    /\ UNCHANGED <<db, wlock>>

\* fault: the statement runs on the database handle instead of the transaction
TxWrite_AutoCommit(p, s) ==
    /\ CanWrite(p)
    /\ db' = s
    /\ tx' = [tx EXCEPT ![p] = [st |-> "write", view |-> s, stale |-> FALSE]]
    /\ wlock' = p

TxWrite(p, s) ==
    /\ CanWrite(p)
    /\ tx' = [tx EXCEPT ![p] = [st |-> "write", view |-> s, stale |-> FALSE]]
    /\ wlock' = p
    /\ UNCHANGED db

\* fault: the error path releases the transaction by committing it
TxRollback_Commits(p) ==
    /\ db' = View(p)
    /\ tx' = [tx EXCEPT ![p] = NoTx]
    /\ wlock' = IF wlock = p THEN 0 ELSE wlock

\* fault: the error path returns without tx.Rollback
TxRollback_Leak(p) == UNCHANGED <<db, tx, wlock>>

TxRollback(p) ==
    /\ db' = db
    /\ tx' = [tx EXCEPT ![p] = NoTx]
    /\ wlock' = IF wlock = p THEN 0 ELSE wlock

TxCommit(p) ==
    /\ db' = IF tx[p].st = "write" THEN tx[p].view ELSE db
    /\ tx' = [q \in Procs |->
                IF q = p THEN NoTx
                ELSE IF tx[p].st = "write" /\ tx[q].st = "read"
                     THEN [tx[q] EXCEPT !.stale = TRUE]
                     ELSE tx[q]]
    /\ wlock' = IF wlock = p THEN 0 ELSE wlock

----------------------------------------------------------------------------
(* Request goroutines *)

\* the server listens, configured with the embedding models Models and without a
\* summarization model. todo, saved and failed are the progress of Close over the
\* graphs, saved holding each file written; atFlush is the graphs as Close found them
Running == [phase |-> "running", embeddingModels |-> Models, summarizeModel |-> FALSE,
            forced |-> FALSE, todo |-> {}, saved |-> {}, failed |-> {},
            dbClose |-> "", flushes |-> 0, result |-> "", atFlush |-> <<>>]

NoCalc == [fn |-> "none"]

Idle == [op |-> "none", pc |-> "idle", docId |-> "d1", textId |-> 1,
         overwrite |-> FALSE, texts |-> <<>>, ids |-> {}, n |-> 0, cur |-> 0,
         todo |-> {}, model |-> "m1", status |-> 0, committed |-> FALSE,
         existed |-> FALSE, removed |-> {}, misses |-> {}, failedAt |-> "", k |-> 1,
         pre |-> EmptyDB, preAnn |-> [m \in Models |-> {}], added |-> {},
         txBegun |-> 0, txEnded |-> 0, panicked |-> FALSE,
         modelId |-> "", query |-> "", nParam |-> <<>>, nDoc |-> 0,
         calls |-> {}, annOut |-> <<>>, results |-> <<>>, listed |-> {},
         given |-> <<>>, aiSum |-> "", summarize |-> "skipped", made |-> {}]

Active == {p \in Procs : proc[p].pc # "idle"}

\* a request is served by the first free goroutine, while the server admits one
CanStart(p) ==
    /\ srv.phase = "running"
    /\ proc[p].pc = "idle"
    /\ Cardinality(Active) < mode
    /\ left # 0
    /\ \A q \in Procs : q < p => proc[q].pc # "idle"

Goto(p, pc) == proc' = [proc EXCEPT ![p].pc = pc]

\* WithTx lines 41-43 with the deferred rollback of lines 32-37, then the handler's
\* error response
Abort(p, status) ==
    /\ TxRollback(p)
    /\ proc' = [proc EXCEPT ![p].pc = "done", ![p].status = status,
                            ![p].failedAt = proc[p].pc, ![p].txEnded = @ + 1]

\* a panic inside the callback: the deferred function of WithTx (lines 25-31) rolls
\* back and panics again; the handler writes no response
Panic(p) ==
    /\ TxRollback(p)
    /\ proc' = [proc EXCEPT ![p].pc = "done", ![p].status = 0,
                            ![p].failedAt = proc[p].pc, ![p].txEnded = @ + 1,
                            ![p].panicked = TRUE]

----------------------------------------------------------------------------
(* WithTx: BeginTx, Commit *)

StartRec(op, docId, textId, overwrite, texts) ==
    [Idle EXCEPT !.op = op, !.pc = "begin", !.docId = docId, !.textId = textId,
                 !.overwrite = overwrite, !.texts = texts,
                 !.existed = (docId \in db.docs), !.pre = db, !.preAnn = ann]

FirstStep(r) ==
    CASE r.op = "NewDocument" -> IF r.overwrite THEN "nd_get" ELSE "nd_insert"
      [] r.op = "DeleteDocument" -> "del_list"
      [] r.op = "NewTextChunk" -> "ctc_uuid"
      [] OTHER -> "dtc_emb"

OkStatus(r) == IF r.op \in {"NewDocument", "NewTextChunk"} THEN 201 ELSE 200

BeginTx(p) ==
    /\ proc[p].pc = "begin"
    /\ \/ /\ tx' = [tx EXCEPT ![p] = [NoTx EXCEPT !.st = "begun"]]
          /\ proc' = [proc EXCEPT ![p].pc = FirstStep(proc[p]), ![p].txBegun = @ + 1]
       \/ /\ proc' = [proc EXCEPT ![p].pc = "done", ![p].status = 500,
                                  ![p].failedAt = "begin"]
          /\ UNCHANGED tx
    /\ UNCHANGED <<db, wlock, ann, nextId, mode, left, srv, calc>>

Commit(p) ==
    /\ proc[p].pc = "commit"
    /\ \/ /\ TxCommit(p)
          /\ proc' = [proc EXCEPT ![p].pc = "done", ![p].status = OkStatus(proc[p]),
                                  ![p].committed = TRUE, ![p].txEnded = @ + 1]
       \/ Abort(p, 500)
    /\ UNCHANGED <<ann, nextId, mode, left, srv, calc>>

Respond(p) ==
    /\ proc[p].pc = "done"
    /\ proc' = [proc EXCEPT ![p] = Idle]
    /\ UNCHANGED <<db, tx, wlock, ann, nextId, mode, left, srv, calc>>

----------------------------------------------------------------------------
(* deleteDocumentInternal, shared by DeleteDocument and NewDocument(overwrite) *)

AfterDelete(r) == IF r.op = "NewDocument" THEN "nd_insert" ELSE "commit"

\* one statement of a transaction callback: it reads or writes the view and moves on,
\* or fails and the callback returns the error
Stmt(p, pc, isWrite, s, r) ==
    /\ proc[p].pc = pc
    /\ \/ /\ IF isWrite THEN TxWrite(p, s) ELSE TxRead(p)
          /\ proc' = [proc EXCEPT ![p] = r]
       \/ Abort(p, 500)
    /\ UNCHANGED <<ann, nextId, mode, left, srv, calc>>

DelList(p) ==
    Stmt(p, "del_list", FALSE, View(p),
         [proc[p] EXCEPT !.pc = "del_emb",
                         !.ids = SqlListTextChunkIdByDocumentID(View(p), proc[p].docId)])

\* fault: the chunk rows are deleted first
DelEmb_ChunksFirst(p) ==
    Stmt(p, "del_emb", TRUE, SqlDeleteTextChunksByDocumentID(View(p), proc[p].docId),
         [proc[p] EXCEPT !.pc = "del_fts"])

DelEmb(p) ==
    Stmt(p, "del_emb", TRUE, SqlDeleteTextEmbeddingsByDocumentID(View(p), proc[p].docId),
         [proc[p] EXCEPT !.pc = "del_fts"])

DelFts(p) ==
    Stmt(p, "del_fts", TRUE, SqlDeleteTextChunkFTSByDocumentID(View(p), proc[p].docId),
         [proc[p] EXCEPT !.pc = "del_chunks"])

DelChunks(p) ==
    Stmt(p, "del_chunks", TRUE, SqlDeleteTextChunksByDocumentID(View(p), proc[p].docId),
         [proc[p] EXCEPT !.pc = "del_doc"])

DelDoc(p) ==
    Stmt(p, "del_doc", TRUE, SqlDeleteDocument(View(p), proc[p].docId),
         [proc[p] EXCEPT !.pc = "del_ann"])

\* fault: the node is deleted from one graph only
deleteTextChunkFromIndex_OneGraph(g, id) ==
    LET first == CHOOSE m \in DOMAIN g : TRUE
    IN  [m \in DOMAIN g |-> IF m = first THEN g[m] \ {id} ELSE g[m]]

\* deleteTextChunkFromIndex: graph.Delete(id) on every model's graph
deleteTextChunkFromIndex(g, id) == [m \in DOMAIN g |-> g[m] \ {id}]

\* graph.Delete returned true for some graph / false for some graph (logged)
Hit(g, id) == IF \E m \in DOMAIN g : id \in g[m] THEN {id} ELSE {}
Miss(g, id) == IF \E m \in DOMAIN g : id \notin g[m] THEN {id} ELSE {}

DelAnn(p) ==
    /\ proc[p].pc = "del_ann"
    /\ \/ \E id \in proc[p].ids :
            /\ ann' = deleteTextChunkFromIndex(ann, id)
            /\ proc' = [proc EXCEPT ![p].ids = @ \ {id},
                                    ![p].removed = @ \cup Hit(ann, id),
                                    ![p].misses = @ \cup Miss(ann, id)]
       \/ /\ proc[p].ids = {}
          /\ Goto(p, AfterDelete(proc[p]))
          /\ UNCHANGED ann
    /\ UNCHANGED <<db, tx, wlock, nextId, mode, left, srv, calc>>


----------------------------------------------------------------------------
(* createTextChunks, shared by NewDocument and NewTextChunk *)

CurText(r) == IF r.op = "NewDocument" THEN r.texts[r.n + 1] ELSE r.texts[1]

\* return &newText, nil: back in the caller's loop (NewDocument) or callback (NewTextChunk)
ChunkDone(r) ==
    [r EXCEPT !.n = @ + 1,
              !.pc = IF r.op = "NewDocument" /\ r.n + 1 < Len(r.texts)
                     THEN "ctc_uuid" ELSE "commit"]

CtcUuid(p) ==
    /\ proc[p].pc = "ctc_uuid"
    /\ \/ /\ nextId <= MaxIds
          /\ nextId' = nextId + 1
          /\ proc' = [proc EXCEPT ![p].cur = nextId, ![p].pc = "ctc_chunk"]
          /\ UNCHANGED <<db, tx, wlock>>
       \/ /\ Abort(p, 500)
          /\ UNCHANGED nextId
    /\ UNCHANGED <<ann, mode, left, srv, calc>>

CtcChunk(p) ==
    /\ ChunkKeyFree(View(p), proc[p].cur)
    /\ Stmt(p, "ctc_chunk", TRUE,
            SqlNewTextChunk(View(p), proc[p].cur, proc[p].docId, CurText(proc[p])),
            [proc[p] EXCEPT !.pc = "ctc_fts", !.made = @ \cup {proc[p].cur}])

CtcFts(p) ==
    Stmt(p, "ctc_fts", TRUE,
         SqlInsertTextChunkFTS(View(p), proc[p].cur, SegContent(CurText(proc[p]))),
         IF DOMAIN ann = {} THEN ChunkDone(proc[p])
         ELSE [proc[p] EXCEPT !.pc = "ctc_models", !.todo = DOMAIN ann])

\* model.Embed: an error, or some number of vectors for the one input text
EmbedCounts == {0, 1, 2}

\* fault: any non-empty result is accepted and embeddings[0] used
EmbedCountOk_NonEmpty(k) == k >= 1

\* len(embeddings) != 1 is an error
EmbedCountOk(k) == k = 1

\* fault: the node is staged and never inserted into the graph
GraphAdd_Staged(g, modelId, id) == g

\* graph.Add: insert or overwrite the node keyed id
GraphAdd(g, modelId, id) == [g EXCEPT ![modelId] = @ \cup {id}]

CtcEmbed(p) ==
    /\ proc[p].pc = "ctc_models"
    /\ \E modelId \in proc[p].todo :
         \/ \E k \in EmbedCounts :
              IF EmbedCountOk(k)
              THEN /\ ann' = GraphAdd(ann, modelId, proc[p].cur)
                   /\ proc' = [proc EXCEPT ![p].pc = "ctc_emb", ![p].model = modelId,
                                           ![p].todo = @ \ {modelId}, ![p].k = k,
                                           ![p].added = @ \cup {[model |-> modelId,
                                                                 chunk |-> proc[p].cur]}]
                   /\ UNCHANGED <<db, tx, wlock>>
              ELSE /\ TxRollback(p)
                   /\ proc' = [proc EXCEPT ![p].pc = "done", ![p].status = 500,
                                           ![p].failedAt = "ctc_models", ![p].k = k,
                                           ![p].txEnded = @ + 1]
                   /\ UNCHANGED ann
         \/ /\ Abort(p, 500)
            /\ UNCHANGED ann
         \/ /\ Panic(p)
            /\ UNCHANGED ann
    /\ UNCHANGED <<nextId, mode, left, srv, calc>>

CtcEmbRow(p) ==
    Stmt(p, "ctc_emb", TRUE,
         SqlNewTextEmbedding(View(p), proc[p].model, proc[p].cur),
         IF proc[p].todo = {} THEN ChunkDone(proc[p])
         ELSE [proc[p] EXCEPT !.pc = "ctc_models"])

----------------------------------------------------------------------------
(* NewDocument *)

\* the values of the "ai_sum" query parameter
AiSumParams == {"", "true", "1", "yes"}

\* the text a successful Summarize returns
SummaryText == "dog"

\* fault: a failed summarization loses the caller's texts
Summarized_DropsOnFailure(texts, aiSum, hasModel) ==
    IF aiSum \in {"true", "1"} /\ Len(texts) > 0 /\ hasModel
    THEN {[summarize |-> "failed", aiSum |-> aiSum, texts |-> <<>>],
          [summarize |-> "ok", aiSum |-> aiSum, texts |-> Append(texts, SummaryText)]}
    ELSE {[summarize |-> "skipped", aiSum |-> "", texts |-> texts]}

\* the "AI summarization" block of NewDocument: whether summarizeModel.Summarize is
\* called, and param.Texts after it (a failure is logged). aiSum is kept for the
\* calls that were made
Summarized(texts, aiSum, hasModel) ==
    IF aiSum \in {"true", "1"} /\ Len(texts) > 0 /\ hasModel
    THEN {[summarize |-> "failed", aiSum |-> aiSum, texts |-> texts],
          [summarize |-> "ok", aiSum |-> aiSum, texts |-> Append(texts, SummaryText)]}
    ELSE {[summarize |-> "skipped", aiSum |-> "", texts |-> texts]}

NewDocumentStart(p) ==
    /\ CanStart(p)
    /\ \/ \E docId \in Docs, overwrite \in BOOLEAN, texts \in TextLists,
             aiSum \in AiSumParams :
            \E s \in Summarized(texts, aiSum, srv.summarizeModel) :
               /\ nextId + Len(s.texts) <= MaxIds + 1
               /\ proc' = [proc EXCEPT ![p] =
                             [StartRec("NewDocument", docId, 1, overwrite, s.texts) EXCEPT
                                 !.given = texts, !.aiSum = s.aiSum,
                                 !.summarize = s.summarize]]
       \/ proc' = [proc EXCEPT ![p] =
                      [StartRec("NewDocument", "d1", 1, FALSE, <<>>) EXCEPT
                          !.pc = "done", !.status = 400, !.failedAt = "bind"]]
    /\ left' = IF left > 0 THEN left - 1 ELSE left
    /\ UNCHANGED <<db, tx, wlock, ann, nextId, mode, srv, calc>>

\* queries.GetDocument inside the transaction: only err == nil leads to the delete
NdGet(p) ==
    /\ proc[p].pc = "nd_get"
    /\ \/ /\ SqlGetDocument(View(p), proc[p].docId)
          /\ TxRead(p)
          /\ Goto(p, "del_list")
       \/ /\ ~SqlGetDocument(View(p), proc[p].docId)
          /\ TxRead(p)
          /\ Goto(p, "nd_insert")
       \/ /\ Goto(p, "nd_insert")
          /\ UNCHANGED <<db, tx, wlock>>
    /\ UNCHANGED <<ann, nextId, mode, left, srv, calc>>

\* fault: the insert replaces an existing row (INSERT OR REPLACE)
NdInsert_Upsert(p) ==
    /\ proc[p].pc = "nd_insert"
    /\ \/ /\ TxWrite(p, SqlNewDocument(View(p), proc[p].docId))
          /\ Goto(p, IF Len(proc[p].texts) = 0 THEN "commit" ELSE "ctc_uuid")
       \/ Abort(p, 500)
    /\ UNCHANGED <<ann, nextId, mode, left, srv, calc>>

NdInsert(p) ==
    /\ proc[p].pc = "nd_insert"
    /\ \/ /\ DocKeyFree(View(p), proc[p].docId)
          /\ TxWrite(p, SqlNewDocument(View(p), proc[p].docId))
          /\ Goto(p, IF Len(proc[p].texts) = 0 THEN "commit" ELSE "ctc_uuid")
       \/ Abort(p, 500)
    /\ UNCHANGED <<ann, nextId, mode, left, srv, calc>>

----------------------------------------------------------------------------
(* DeleteDocument *)

DeleteDocumentStart(p) ==
    /\ CanStart(p)
    /\ \E docId \in Docs :
         proc' = [proc EXCEPT ![p] = StartRec("DeleteDocument", docId, 1, FALSE, <<>>)]
    /\ left' = IF left > 0 THEN left - 1 ELSE left
    /\ UNCHANGED <<db, tx, wlock, ann, nextId, mode, srv, calc>>

----------------------------------------------------------------------------
(* NewTextChunk *)

NewTextChunkStart(p) ==
    /\ CanStart(p)
    /\ nextId <= MaxIds
    /\ \E docId \in Docs, text \in AddedTexts :
         proc' = [proc EXCEPT ![p] =
                    [StartRec("NewTextChunk", docId, 1, FALSE, <<text>>) EXCEPT !.pc = "ntc_get"]]
    /\ left' = IF left > 0 THEN left - 1 ELSE left
    /\ UNCHANGED <<db, tx, wlock, ann, nextId, mode, srv, calc>>

\* fault: the document id is not validated before the chunk is created
NtcGet_NoCheck(p) ==
    /\ proc[p].pc = "ntc_get"
    /\ \/ Goto(p, "begin")
       \/ proc' = [proc EXCEPT ![p].pc = "done", ![p].status = 400,
                               ![p].failedAt = "bind"]
    /\ UNCHANGED <<db, tx, wlock, ann, nextId, mode, left, srv, calc>>

\* c.queries.GetDocument outside any transaction (no row: 404, any other error of
\* the query: 500), then Bind
NtcGet(p) ==
    /\ proc[p].pc = "ntc_get"
    /\ \/ /\ SqlGetDocument(db, proc[p].docId)
          /\ \/ Goto(p, "begin")
             \/ proc' = [proc EXCEPT ![p].pc = "done", ![p].status = 400,
                                     ![p].failedAt = "bind"]
       \/ /\ ~SqlGetDocument(db, proc[p].docId)
          /\ proc' = [proc EXCEPT ![p].pc = "done", ![p].status = 404,
                                  ![p].failedAt = "ntc_get"]
       \/ proc' = [proc EXCEPT ![p].pc = "done", ![p].status = 500,
                               ![p].failedAt = "query"]
    /\ UNCHANGED <<db, tx, wlock, ann, nextId, mode, left, srv, calc>>

----------------------------------------------------------------------------
(* DeleteTextChunk *)

DeleteTextChunkStart(p) ==
    /\ CanStart(p)
    /\ \E id \in ChunkIds :
         proc' = [proc EXCEPT ![p] = StartRec("DeleteTextChunk", "d1", id, FALSE, <<>>)]
    /\ left' = IF left > 0 THEN left - 1 ELSE left
    /\ UNCHANGED <<db, tx, wlock, ann, nextId, mode, srv, calc>>

DtcEmb(p) ==
    Stmt(p, "dtc_emb", TRUE, SqlDeleteTextEmbeddingsByTextChunkID(View(p), proc[p].textId),
         [proc[p] EXCEPT !.pc = "dtc_fts"])

DtcFts(p) ==
    Stmt(p, "dtc_fts", TRUE, SqlDeleteTextChunkFTSByID(View(p), proc[p].textId),
         [proc[p] EXCEPT !.pc = "dtc_chunk"])

DtcChunk(p) ==
    Stmt(p, "dtc_chunk", TRUE, SqlDeleteTextChunk(View(p), proc[p].textId),
         [proc[p] EXCEPT !.pc = "dtc_ann"])

\* fault: a graph.Delete that finds no node is returned as the callback's error
DtcAnn_FailsOnMiss(p) ==
    /\ proc[p].pc = "dtc_ann"
    /\ IF Miss(ann, proc[p].textId) # {}
       THEN Abort(p, 500) /\ UNCHANGED ann
       ELSE /\ ann' = deleteTextChunkFromIndex(ann, proc[p].textId)
            /\ proc' = [proc EXCEPT ![p].pc = "commit",
                                    ![p].removed = @ \cup Hit(ann, proc[p].textId)]
            /\ UNCHANGED <<db, tx, wlock>>
    /\ UNCHANGED <<nextId, mode, left, srv, calc>>

DtcAnn(p) ==
    /\ proc[p].pc = "dtc_ann"
    /\ ann' = deleteTextChunkFromIndex(ann, proc[p].textId)
    /\ proc' = [proc EXCEPT ![p].pc = "commit",
                            ![p].removed = @ \cup Hit(ann, proc[p].textId),
                            ![p].misses = @ \cup Miss(ann, proc[p].textId)]
    /\ UNCHANGED <<db, tx, wlock, nextId, mode, left, srv, calc>>

----------------------------------------------------------------------------
(* GetDocument *)

RowNotFoundMessage == "sql: no rows in result set"

\* fault: every error of the query is answered as "not found"
handleSQLError_AlwaysNotFound(err) == 404

handleSQLError(err) == IF err = RowNotFoundMessage THEN 404 ELSE 500

\* the error of a :one query: "" for a row, sql.ErrNoRows for none
QueryRowErr(found, storageError) ==
    IF storageError THEN "database is locked"
    ELSE IF found THEN "" ELSE RowNotFoundMessage

GetDocumentStatus(s, docId, storageError) ==
    LET err == QueryRowErr(SqlGetDocument(s, docId), storageError)
    IN  IF err # "" THEN handleSQLError(err) ELSE 200

SqlGetTextChunk(s, id) == \E c \in s.chunks : c.id = id

GetTextChunkStatus(s, id, storageError) ==
    LET err == QueryRowErr(SqlGetTextChunk(s, id), storageError)
    IN  IF err # "" THEN handleSQLError(err) ELSE 200

GetDocument(p) ==
    /\ CanStart(p)
    /\ \E docId \in Docs, storageError \in BOOLEAN :
         proc' = [proc EXCEPT ![p] =
                    [StartRec("GetDocument", docId, 1, FALSE, <<>>) EXCEPT
                        !.pc = "done", !.status = GetDocumentStatus(db, docId, storageError),
                        !.failedAt = IF storageError THEN "query" ELSE ""]]
    /\ left' = IF left > 0 THEN left - 1 ELSE left
    /\ UNCHANGED <<db, tx, wlock, ann, nextId, mode, srv, calc>>

GetTextChunk(p) ==
    /\ CanStart(p)
    /\ \E id \in ChunkIds, storageError \in BOOLEAN :
         proc' = [proc EXCEPT ![p] =
                    [StartRec("GetTextChunk", "d1", id, FALSE, <<>>) EXCEPT
                        !.pc = "done", !.status = GetTextChunkStatus(db, id, storageError),
                        !.existed = SqlGetTextChunk(db, id),
                        !.failedAt = IF storageError THEN "query" ELSE ""]]
    /\ left' = IF left > 0 THEN left - 1 ELSE left
    /\ UNCHANGED <<db, tx, wlock, ann, nextId, mode, srv, calc>>

----------------------------------------------------------------------------
(* The server *)

InitCommon ==
    /\ srv = Running
    /\ calc = NoCalc
    /\ db = EmptyDB
    /\ tx = [p \in Procs |-> NoTx]
    /\ wlock = 0
    /\ ann = [m \in Models |-> {}]
    /\ nextId = 1
    /\ proc = [p \in Procs |-> Idle]

\* requests served one at a time, from an empty database
Init == InitCommon /\ mode = 1 /\ left = -1

\* MaxRequests requests served one at a time by a server configured with a
\* summarization model, from an empty database
InitSum ==
    /\ srv = [Running EXCEPT !.summarizeModel = TRUE]
    /\ calc = NoCalc
    /\ db = EmptyDB
    /\ tx = [p \in Procs |-> NoTx]
    /\ wlock = 0
    /\ ann = [m \in Models |-> {}]
    /\ nextId = 1
    /\ proc = [p \in Procs |-> Idle]
    /\ mode = 1
    /\ left = MaxRequests

\* the state after NewDocument("d1", texts = <<"the Fox">>) has been served
Indexed ==
    [docs |-> {"d1"},
     chunks |-> {[id |-> 1, doc |-> "d1", content |-> "the Fox", seg |-> SegContent("the Fox")]},
     fts |-> SetToBag({[id |-> 1, seg |-> SegContent("the Fox")]}),
     emb |-> SetToBag({[model |-> m, chunk |-> 1] : m \in Models})]

\* MaxRequests requests that may overlap, on a database holding one indexed document
InitConc ==
    /\ srv = Running
    /\ calc = NoCalc
    /\ db = Indexed
    /\ tx = [p \in Procs |-> NoTx]
    /\ wlock = 0
    /\ ann = [m \in Models |-> {1}]
    /\ nextId = 2
    /\ proc = [p \in Procs |-> Idle]
    /\ mode = 2
    /\ left = MaxRequests

Next ==
    \E p \in Procs :
        \/ NewDocumentStart(p) \/ NdGet(p) \/ NdInsert(p)
        \/ DeleteDocumentStart(p)
        \/ DelList(p) \/ DelEmb(p) \/ DelFts(p) \/ DelChunks(p) \/ DelDoc(p) \/ DelAnn(p)
        \/ NewTextChunkStart(p) \/ NtcGet(p)
        \/ CtcUuid(p) \/ CtcChunk(p) \/ CtcFts(p) \/ CtcEmbed(p) \/ CtcEmbRow(p)
        \/ DeleteTextChunkStart(p) \/ DtcEmb(p) \/ DtcFts(p) \/ DtcChunk(p) \/ DtcAnn(p)
        \/ GetDocument(p) \/ GetTextChunk(p)
        \/ BeginTx(p) \/ Commit(p) \/ Respond(p)

Spec == Init /\ [][Next]_vars

SpecSum == InitSum /\ [][Next]_vars

SpecConc == InitConc /\ [][Next]_vars


----------------------------------------------------------------------------
(* Lexical search: the join of searchWithBM25 *)

Queries == {"fox", "dog", "lazy", "the"}

\* FTS5 MATCH of a one-term query on seg_content (unicode61 folds case)
Match(seg, query) == \E i \in 1..Len(seg) : Normalize(seg[i]) = Normalize(query)

searchWithBM25(s, query) ==
    {[TextChunkID |-> c.id, DocumentID |-> c.doc] :
        c \in {x \in s.chunks :
                 /\ x.doc \in s.docs
                 /\ \E f \in DOMAIN s.fts : f.id = x.id /\ Match(f.seg, query)}}

----------------------------------------------------------------------------
(* Search: GET /api/v1/search/:model_id?q=..&n=.. *)

\* values of the path parameter model_id, of q, and of n (as characters)
SearchModelIds == {"bm25", "BM25", "m1", "m2", "zz"}
SearchTexts == {"", "dog", "fox"}
LimitParams ==
    {<<>>, <<"x">>, <<"0">>, <<"-", "1">>, <<"2">>, <<"9", "9">>}

\* the largest int of the build
MaxInt == 2^(IntBits - 1) - 1

DigitValue == ("0" :> 0) @@ ("1" :> 1) @@ ("2" :> 2) @@ ("9" :> 9)

\* the digits of s read from the left onto n: the value, -1 for a character that is
\* no digit (ErrSyntax), -2 for a value out of range (ErrRange)
RECURSIVE ParseDigits(_, _)
ParseDigits(s, n) ==
    IF s = <<>> THEN n
    ELSE IF Head(s) \notin DOMAIN DigitValue THEN -1
    ELSE IF n * 10 + DigitValue[Head(s)] > MaxInt THEN -2
    ELSE ParseDigits(Tail(s), n * 10 + DigitValue[Head(s)])

\* strconv.Atoi: an optional sign and at least one digit
Atoi(s) ==
    LET signed == s # <<>> /\ Head(s) \in {"-", "+"}
        body == IF signed THEN Tail(s) ELSE s
        v == IF body = <<>> THEN -1 ELSE ParseDigits(body, 0)
    IN  IF v < 0 THEN [err |-> TRUE, n |-> 0]
        ELSE [err |-> FALSE, n |-> IF signed /\ Head(s) = "-" THEN 0 - v ELSE v]

DefaultLimit == 10

\* fault: only a negative limit falls back to the default
SearchLimit_ZeroAllowed(nParam) ==
    LET r == Atoi(nParam) IN IF r.err \/ r.n < 0 THEN DefaultLimit ELSE r.n

\* nDoc, err := strconv.Atoi(nDocParam); if err != nil || nDoc <= 0 { nDoc = 10 }
SearchLimit(nParam) ==
    LET r == Atoi(nParam) IN IF r.err \/ r.n <= 0 THEN DefaultLimit ELSE r.n

\* fault: the query parameter is not checked
QueryMissing_Unchecked(query) == FALSE

QueryMissing(query) == query = ""

\* fault: the model id is compared as it was given
ToLower_Identity(s) == s

\* strings.ToLower on the model ids
ToLower(s) == IF s = "BM25" THEN "bm25" ELSE s

\* fault: the configured embedding models are looked up before the lexical name
SearchBackend_ModelsFirst(modelId) ==
    IF modelId \in srv.embeddingModels /\ modelId \in DOMAIN ann THEN "embedding"
    ELSE IF ToLower(modelId) = "bm25" THEN "bm25"
    ELSE "none"

\* fault: an unknown model id is searched as an embedding model
SearchBackend_AnyModel(modelId) ==
    IF ToLower(modelId) = "bm25" THEN "bm25" ELSE "embedding"

\* the branch Search takes: lexical, an embedding model with its graph, or neither
SearchBackend(modelId) ==
    IF ToLower(modelId) = "bm25" THEN "bm25"
    ELSE IF modelId \in srv.embeddingModels /\ modelId \in DOMAIN ann THEN "embedding"
    ELSE "none"

\* every listing of the items of a set
SeqsOf(items) ==
    {s \in [1..Cardinality(items) -> items] :
        \A i, j \in 1..Cardinality(items) : i # j => s[i] # s[j]}

Limit(s, n) == SubSeq(s, 1, IF Len(s) < n THEN Len(s) ELSE n)

\* fts.rank, the negated bm25 of FTS5: negative, and smaller the more of the row's
\* tokens are occurrences of the term
Bm25Rank(seg, query) ==
    LET tf == Cardinality({i \in 1..Len(seg) : Normalize(seg[i]) = Normalize(query)})
    IN  0 - ((100 * tf) \div (tf + Len(seg)))

\* the rows of the join with their rank
Bm25Rows(s, query) ==
    {[TextChunkID |-> x[2].id, DocumentID |-> x[2].doc, Score |-> Bm25Rank(x[1].seg, query)] :
        x \in {y \in (DOMAIN s.fts) \X s.chunks :
                 /\ y[1].id = y[2].id
                 /\ y[2].doc \in s.docs
                 /\ Match(y[1].seg, query)}}

\* ORDER BY fts.rank LIMIT nDoc: ascending rank, rows of equal rank in any order
searchWithBM25Results(s, query, nDoc) ==
    {Limit(r, nDoc) :
        r \in {q \in SeqsOf(Bm25Rows(s, query)) :
                 \A i \in 1..(Len(q) - 1) : q[i].Score <= q[i + 1].Score}}

Distances == {1, 2}

\* index.SearchWithDistance(vector, k): at most k nodes of the graph with their
\* distances to the query vector, as the graph returns them
SearchWithDistance(nodes, k) ==
    UNION {{[i \in 1..Cardinality(ks) |-> [Key |-> s[i], Distance |-> d[s[i]]]] :
              s \in SeqsOf(ks), d \in [ks -> Distances]} :
           ks \in {x \in SUBSET nodes : Cardinality(x) <= k}}

Keys(out) == {out[i].Key : i \in 1..Len(out)}

\* distanceMap[item.Key] = item.Distance
DistanceMap(out) ==
    [key \in Keys(out) |-> out[CHOOSE i \in 1..Len(out) : out[i].Key = key].Distance]

\* fault: an item is returned for every key of the graph's result
EmbeddingRows_AllKeys(s, out) ==
    {[TextChunkID |-> key, DocumentID |-> "d1", Score |-> 0 - DistanceMap(out)[key]] :
        key \in Keys(out)}

\* the rows of text_chunk JOIN document WHERE tc.id IN (keys), scored -distance
EmbeddingRows(s, out) ==
    {[TextChunkID |-> c.id, DocumentID |-> c.doc, Score |-> 0 - DistanceMap(out)[c.id]] :
        c \in {x \in s.chunks : x.id \in Keys(out) /\ x.doc \in s.docs}}

\* fault: the rows are returned as the query returned them
SortSlice_Unsorted(rows) == SeqsOf(rows)

\* the rows in the order the query returned them, then sort.Slice by descending
\* score, which is not stable
SortSlice(rows) ==
    {r \in SeqsOf(rows) : \A i \in 1..(Len(r) - 1) : r[i].Score >= r[i + 1].Score}

SearchStart(p) ==
    /\ CanStart(p)
    /\ \E modelId \in SearchModelIds, query \in SearchTexts, nParam \in LimitParams :
         LET r == [StartRec("Search", "d1", 1, FALSE, <<>>) EXCEPT
                      !.modelId = modelId, !.query = query, !.nParam = nParam]
         IN  proc' = [proc EXCEPT ![p] =
                IF QueryMissing(query)
                THEN [r EXCEPT !.pc = "done", !.status = 400, !.failedAt = "q"]
                ELSE IF SearchBackend(modelId) = "bm25"
                THEN [r EXCEPT !.pc = "s_bm25", !.nDoc = SearchLimit(nParam)]
                ELSE IF SearchBackend(modelId) = "embedding"
                THEN [r EXCEPT !.pc = "s_embed", !.nDoc = SearchLimit(nParam)]
                ELSE [r EXCEPT !.pc = "done", !.status = 400, !.failedAt = "model",
                               !.nDoc = SearchLimit(nParam)]]
    /\ left' = IF left > 0 THEN left - 1 ELSE left
    /\ UNCHANGED <<db, tx, wlock, ann, nextId, mode, srv, calc>>

SearchFail(p, what) ==
    proc' = [proc EXCEPT ![p].pc = "done", ![p].status = 500, ![p].failedAt = proc[p].pc,
                         ![p].calls = @ \cup {what}]

SearchBM25(p) ==
    /\ proc[p].pc = "s_bm25"
    /\ \/ \E res \in searchWithBM25Results(db, proc[p].query, proc[p].nDoc) :
            proc' = [proc EXCEPT ![p].pc = "done", ![p].status = 200, ![p].results = res,
                                 ![p].calls = @ \cup {"sql"}, ![p].pre = db]
       \/ SearchFail(p, "sql")
    /\ UNCHANGED <<db, tx, wlock, ann, nextId, mode, left, srv, calc>>

\* len(queryEmbedding) != 1 is an error
QueryEmbedCountOk(k) == k = 1

SearchEmbed(p) ==
    /\ proc[p].pc = "s_embed"
    /\ \/ \E k \in EmbedCounts :
            IF QueryEmbedCountOk(k)
            THEN proc' = [proc EXCEPT ![p].pc = "s_ann", ![p].calls = @ \cup {"embed"}]
            ELSE SearchFail(p, "embed")
       \/ SearchFail(p, "embed")
    /\ UNCHANGED <<db, tx, wlock, ann, nextId, mode, left, srv, calc>>

SearchAnn(p) ==
    /\ proc[p].pc = "s_ann"
    /\ \E out \in SearchWithDistance(ann[proc[p].modelId], proc[p].nDoc) :
         proc' = [proc EXCEPT ![p].pc = "s_sql", ![p].annOut = out,
                              ![p].calls = @ \cup {"ann"}]
    /\ UNCHANGED <<db, tx, wlock, ann, nextId, mode, left, srv, calc>>

SearchHydrate(p) ==
    /\ proc[p].pc = "s_sql"
    /\ \/ \E res \in SortSlice(EmbeddingRows(db, proc[p].annOut)) :
            proc' = [proc EXCEPT ![p].pc = "done", ![p].status = 200, ![p].results = res,
                                 ![p].calls = @ \cup {"sql"}, ![p].pre = db]
       \/ SearchFail(p, "sql")
    /\ UNCHANGED <<db, tx, wlock, ann, nextId, mode, left, srv, calc>>

----------------------------------------------------------------------------
(* The model list: GET /api/v1/models, and the list_models tool over it *)

\* the keys of c.embeddingModels
ListEmbeddingModels == srv.embeddingModels

\* result = append(result, "BM25")
ListModelsOutput(served) == served \cup {"BM25"}

ListModels(p) ==
    /\ CanStart(p)
    /\ \/ proc' = [proc EXCEPT ![p] =
                      [StartRec("ListModels", "d1", 1, FALSE, <<>>) EXCEPT
                          !.pc = "done", !.status = 200,
                          !.listed = ListModelsOutput(ListEmbeddingModels)]]
       \/ proc' = [proc EXCEPT ![p] =
                      [StartRec("ListModels", "d1", 1, FALSE, <<>>) EXCEPT
                          !.pc = "done", !.status = 500, !.failedAt = "http"]]
    /\ left' = IF left > 0 THEN left - 1 ELSE left
    /\ UNCHANGED <<db, tx, wlock, ann, nextId, mode, srv, calc>>

----------------------------------------------------------------------------
(* Searches over an indexed document *)

\* the state after NewDocument("d1", texts = <<"lazy dog", "dog">>) has been served
IndexedTwo ==
    [docs |-> {"d1"},
     chunks |-> {[id |-> 1, doc |-> "d1", content |-> "lazy dog", seg |-> SegContent("lazy dog")],
                 [id |-> 2, doc |-> "d1", content |-> "dog", seg |-> SegContent("dog")]},
     fts |-> SetToBag({[id |-> 1, seg |-> SegContent("lazy dog")],
                       [id |-> 2, seg |-> SegContent("dog")]}),
     emb |-> SetToBag({[model |-> m, chunk |-> c] : m \in Models, c \in {1, 2}})]

\* MaxRequests requests served one at a time on that database
InitSearch ==
    /\ srv = Running
    /\ calc = NoCalc
    /\ db = IndexedTwo
    /\ tx = [p \in Procs |-> NoTx]
    /\ wlock = 0
    /\ ann = [m \in Models |-> {1, 2}]
    /\ nextId = 3
    /\ proc = [p \in Procs |-> Idle]
    /\ mode = 1
    /\ left = MaxRequests

NextSearch ==
    \/ Next
    \/ \E p \in Procs :
        \/ SearchStart(p) \/ SearchBM25(p)
        \/ SearchEmbed(p) \/ SearchAnn(p) \/ SearchHydrate(p)
        \/ ListModels(p)

SpecSearch == InitSearch /\ [][NextSearch]_vars

\* a configuration in which one embedding model has the id "bm25"
ShadowModels == {"m1", "bm25"}

\* MaxRequests requests served one at a time by a server so configured, on the
\* database of InitSearch indexed under those models
InitShadow ==
    /\ srv = [Running EXCEPT !.embeddingModels = ShadowModels]
    /\ calc = NoCalc
    /\ db = [IndexedTwo EXCEPT
                !.emb = SetToBag({[model |-> m, chunk |-> c] :
                                     m \in ShadowModels, c \in {1, 2}})]
    /\ tx = [p \in Procs |-> NoTx]
    /\ wlock = 0
    /\ ann = [m \in ShadowModels |-> {1, 2}]
    /\ nextId = 3
    /\ proc = [p \in Procs |-> Idle]
    /\ mode = 1
    /\ left = MaxRequests

SpecShadow == InitShadow /\ [][NextSearch]_vars

----------------------------------------------------------------------------
(* Shutdown: serverCommand.Run after the signal, and Controller.Close *)

\* <-ctx.Done(): SIGINT or SIGTERM; httpServer.Shutdown closes the listeners, so no
\* further request is admitted
Signal ==
    /\ srv.phase = "running"
    /\ srv' = [srv EXCEPT !.phase = "draining"]
    /\ UNCHANGED <<db, tx, wlock, ann, nextId, proc, mode, left, calc>>

\* httpServer.Shutdown returns: nil once no request is being served, or the error of
\* its 10 s context while one still is (logged: "Server forced to shutdown").
\* Either way Run goes on to c.Close()
ShutdownReturns ==
    /\ srv.phase = "draining"
    /\ srv' = [srv EXCEPT !.phase = "closing", !.forced = (Active # {}),
                          !.todo = DOMAIN ann, !.flushes = @ + 1, !.atFlush = ann]
    /\ UNCHANGED <<db, tx, wlock, ann, nextId, proc, mode, left, calc>>

\* fault: Close returns the first error of graph.Save
CloseSave_StopOnError(m) ==
    /\ srv.phase = "closing" /\ m \in srv.todo
    /\ \/ srv' = [srv EXCEPT !.todo = @ \ {m},
                             !.saved = @ \cup {[model |-> m, nodes |-> ann[m]]}]
       \/ srv' = [srv EXCEPT !.failed = @ \cup {m}, !.phase = "stopped",
                             !.result = "error"]
    /\ UNCHANGED <<db, tx, wlock, ann, nextId, proc, mode, left, calc>>

\* one iteration of the loop of Close: graph.Save writes the graph to its file, or
\* fails and the failure is logged
CloseSave(m) ==
    /\ srv.phase = "closing" /\ m \in srv.todo
    /\ \/ srv' = [srv EXCEPT !.todo = @ \ {m},
                             !.saved = @ \cup {[model |-> m, nodes |-> ann[m]]}]
       \/ srv' = [srv EXCEPT !.todo = @ \ {m}, !.failed = @ \cup {m}]
    /\ UNCHANGED <<db, tx, wlock, ann, nextId, proc, mode, left, calc>>

\* c.db.Close() (its error is logged), return nil; Run returns and the process ends
CloseDb ==
    /\ srv.phase = "closing" /\ srv.todo = {}
    /\ \E r \in {"closed", "failed"} :
         srv' = [srv EXCEPT !.phase = "stopped", !.dbClose = r, !.result = "nil"]
    /\ UNCHANGED <<db, tx, wlock, ann, nextId, proc, mode, left, calc>>

\* MaxRequests requests served one at a time on a database holding one indexed
\* document, and a signal at any moment
InitShutdown ==
    /\ srv = Running
    /\ calc = NoCalc
    /\ db = Indexed
    /\ tx = [p \in Procs |-> NoTx]
    /\ wlock = 0
    /\ ann = [m \in Models |-> {1}]
    /\ nextId = 2
    /\ proc = [p \in Procs |-> Idle]
    /\ mode = 1
    /\ left = MaxRequests

\* the handlers run on their goroutines until the process ends
NextShutdown ==
    \/ srv.phase # "stopped" /\ Next
    \/ Signal
    \/ ShutdownReturns
    \/ \E m \in Models : CloseSave(m)
    \/ CloseDb

SpecShutdown == InitShutdown /\ [][NextShutdown]_vars

\* searches running while other requests create and delete chunks
SpecRace == InitConc /\ [][NextSearch]_vars

----------------------------------------------------------------------------
(* utils: the codec of embedding vectors *)

MaxVecLen == 2
MaxBufLen == 5

\* math.Float32bits: a float32 is its 32-bit pattern, held as two 16-bit halves
Bits(hi, lo) == [hi |-> hi, lo |-> lo]

\* 0, -0, 1, -1, 3.14159, MaxFloat32, -MaxFloat32, +Inf, -Inf, NaN
Float32Values ==
    {Bits(0, 0), Bits(32768, 0), Bits(16256, 0), Bits(49024, 0), Bits(16457, 4048),
     Bits(32639, 65535), Bits(65407, 65535), Bits(32640, 0), Bits(65408, 0),
     Bits(32704, 0)}

ByteValues == {0, 63, 128}

\* byte(bits >> (8 * k))
ShiftByte(bits, k) ==
    CASE k = 0 -> bits.lo % 256
      [] k = 1 -> (bits.lo \div 256) % 256
      [] k = 2 -> bits.hi % 256
      [] k = 3 -> (bits.hi \div 256) % 256

ConvertFloat32ArrayToBytes(floats) ==
    LET size == Len(floats) * 4
    IN  [j \in 1..size |-> ShiftByte(floats[((j - 1) \div 4) + 1], (j - 1) % 4)]

\* the result of the decoder: nil, or a slice
NilSlice == [nil |-> TRUE, v |-> <<>>]
Slice(v) == [nil |-> FALSE, v |-> v]

\* fault: the bytes of a value are read most-significant first
ConvertBytesToFloat32Array_BigEndian(bytes) ==
    IF Len(bytes) % 4 # 0 THEN NilSlice
    ELSE Slice([i \in 1..(Len(bytes) \div 4) |->
                  Bits(bytes[4 * i - 2] + bytes[4 * i - 3] * 256,
                       bytes[4 * i] + bytes[4 * i - 1] * 256)])

\* fault: the length is not checked and the trailing bytes are dropped
ConvertBytesToFloat32Array_Truncating(bytes) ==
    Slice([i \in 1..(Len(bytes) \div 4) |->
             Bits(bytes[4 * i - 1] + bytes[4 * i] * 256,
                  bytes[4 * i - 3] + bytes[4 * i - 2] * 256)])

ConvertBytesToFloat32Array(bytes) ==
    IF Len(bytes) % 4 # 0 THEN NilSlice
    ELSE LET size == Len(bytes) \div 4
         IN  Slice([i \in 1..size |->
                      Bits(bytes[4 * i - 1] + bytes[4 * i] * 256,
                           bytes[4 * i - 3] + bytes[4 * i - 2] * 256)])

Vectors == UNION {[1..n -> Float32Values] : n \in 0..MaxVecLen}
Buffers == UNION {[1..n -> ByteValues] : n \in 0..MaxBufLen}

\* a call of the encoder, as NewTextEmbedding's parameter is built
Encode ==
    /\ \E floats \in Vectors :
         calc' = [fn |-> "encode", floats |-> floats,
                  bytes |-> ConvertFloat32ArrayToBytes(floats), out |-> NilSlice]
    /\ UNCHANGED <<db, tx, wlock, ann, nextId, proc, mode, left, srv>>

\* the decoder on what the encoder returned
DecodeEncoded ==
    /\ calc.fn = "encode"
    /\ calc' = [calc EXCEPT !.fn = "roundtrip",
                            !.out = ConvertBytesToFloat32Array(calc.bytes)]
    /\ UNCHANGED <<db, tx, wlock, ann, nextId, proc, mode, left, srv>>

\* the decoder on any stored blob
Decode ==
    /\ \E bytes \in Buffers :
         calc' = [fn |-> "decode", floats |-> <<>>, bytes |-> bytes,
                  out |-> ConvertBytesToFloat32Array(bytes)]
    /\ UNCHANGED <<db, tx, wlock, ann, nextId, proc, mode, left, srv>>

NextCodec == Encode \/ DecodeEncoded \/ Decode

SpecCodec == Init /\ [][NextCodec]_vars

----------------------------------------------------------------------------
(* text: CJKNormalizer.Normalize pass by pass, and the joined seg_content *)

MaxTextLen == 2

\* a text is a sequence of runes, each named by its letter or code point:
\* U+FF28 fullwidth H, U+FF48 fullwidth h, U+210C black-letter H,
\* U+56FD the new (and simplified) form of "country", U+570B its traditional form
Runes == {"H", "h", "U+FF28", "U+210C", "U+56FD", "U+570B"}

UpperRunes == {"H", "U+FF28", "U+210C"}

NormTexts == UNION {[1..n -> Runes] : n \in 0..MaxTextLen}

\* norm.NFKC.String
NFKC(s) ==
    [i \in 1..Len(s) |->
        CASE s[i] \in {"U+FF28", "U+210C"} -> "H"
          [] s[i] = "U+FF48" -> "h"
          [] OTHER -> s[i]]

\* opencc "jp2t".Convert
Jp2tConvert(s) == [i \in 1..Len(s) |-> IF s[i] = "U+56FD" THEN "U+570B" ELSE s[i]]

\* opencc "t2s".Convert
T2sConvert(s) == [i \in 1..Len(s) |-> IF s[i] = "U+570B" THEN "U+56FD" ELSE s[i]]

\* strings.ToLower: U+210C has no lowercase mapping
ToLowerString(s) ==
    [i \in 1..Len(s) |->
        CASE s[i] = "H" -> "h"
          [] s[i] = "U+FF28" -> "U+FF48"
          [] OTHER -> s[i]]

\* fault: the text is lowercased before it is canonicalized
CJKNormalize_LowerFirst(text, useJp2t, useT2s) ==
    LET s0 == NFKC(ToLowerString(text))
        s1 == IF useJp2t THEN Jp2tConvert(s0) ELSE s0
    IN  IF useT2s THEN T2sConvert(s1) ELSE s1

\* CJKNormalizer.Normalize of a normalizer built by NewCJKNormalizer(useJp2t, useT2s)
CJKNormalize(text, useJp2t, useT2s) ==
    LET s0 == NFKC(text)
        s1 == IF useJp2t THEN Jp2tConvert(s0) ELSE s0
        s2 == IF useT2s THEN T2sConvert(s1) ELSE s1
    IN  ToLowerString(s2)

\* strings.Join
RECURSIVE Join(_, _)
Join(elems, sep) ==
    IF elems = <<>> THEN ""
    ELSE IF Len(elems) = 1 THEN elems[1]
    ELSE elems[1] \o sep \o Join(Tail(elems), sep)

SegTexts == {"the Fox", "lazy dog", "dog"}

\* a call of Normalize on a normalizer of any configuration
NormalizeCall ==
    /\ \E text \in NormTexts, useJp2t \in BOOLEAN, useT2s \in BOOLEAN :
         calc' = [fn |-> "normalize", text |-> text, useJp2t |-> useJp2t,
                  useT2s |-> useT2s, out |-> CJKNormalize(text, useJp2t, useT2s)]
    /\ UNCHANGED <<db, tx, wlock, ann, nextId, proc, mode, left, srv>>

\* the segContent that createTextChunks derives from a text
SegmentCall ==
    /\ \E text \in SegTexts :
         calc' = [fn |-> "segContent", text |-> text,
                  out |-> Join(SegContent(text), " ")]
    /\ UNCHANGED <<db, tx, wlock, ann, nextId, proc, mode, left, srv>>

TokTexts == {"", "the", "the Fox", "dog", "lazy dog", "a dog the Fox", "the dog a"}

\* the same text given to a tokenizer without filtering and to one of either kind
TokenizeCall ==
    /\ \E text \in TokTexts, filterStopWord \in BOOLEAN :
         calc' = [fn |-> "tokenize", text |-> text, filterStopWord |-> filterStopWord,
                  raw |-> GSETokenize(text, FALSE),
                  out |-> GSETokenize(text, filterStopWord)]
    /\ UNCHANGED <<db, tx, wlock, ann, nextId, proc, mode, left, srv>>

NextText == NormalizeCall \/ SegmentCall \/ TokenizeCall

SpecText == Init /\ [][NextText]_vars

----------------------------------------------------------------------------
(* Row counts used by the properties *)

FtsCount(s, id) == BagCardinality(BagKeep(s.fts, {f \in DOMAIN s.fts : f.id = id}))

EmbCount(s, modelId, id) ==
    BagCardinality(BagKeep(s.emb, {e \in DOMAIN s.emb : e.model = modelId /\ e.chunk = id}))

ChunkRowsOfDoc(s, docId) == {c \in s.chunks : c.doc = docId}

Finished(p, op) == proc[p].op = op /\ proc[p].pc = "done"

Succeeded(p, op) == Finished(p, op) /\ proc[p].status = OkStatus(proc[p])

Failed(p, op) == Finished(p, op) /\ proc[p].status # OkStatus(proc[p])

IndexingSteps == {"ctc_uuid", "ctc_chunk", "ctc_fts", "ctc_models", "ctc_emb"}

\* the model ids that name the lexical engine
LexicalNames == {"bm25", "BM25"}

\* the number a limit parameter writes, whatever its size; 0 when it writes none
PlainDigits(s) == s # <<>> /\ \A i \in 1..Len(s) : s[i] \in DOMAIN DigitValue

RECURSIVE Numeral(_)
Numeral(s) ==
    IF s = <<>> THEN 0
    ELSE Numeral(SubSeq(s, 1, Len(s) - 1)) * 10 + DigitValue[s[Len(s)]]

LimitValue(s) ==
    IF PlainDigits(s) THEN Numeral(s)
    ELSE IF s # <<>> /\ Head(s) = "+" /\ PlainDigits(Tail(s)) THEN Numeral(Tail(s))
    ELSE IF s # <<>> /\ Head(s) = "-" /\ PlainDigits(Tail(s)) THEN 0 - Numeral(Tail(s))
    ELSE 0

\* a search that passed the checks of the query and of the model id
Searching(p) ==
    /\ proc[p].op = "Search"
    /\ proc[p].query # ""
    /\ proc[p].modelId \in LexicalNames \cup Models

Descending(r) == \A i \in 1..(Len(r) - 1) : r[i].Score >= r[i + 1].Score

PositionIn(out, key) == CHOOSE i \in 1..Len(out) : out[i].Key = key

----------------------------------------------------------------------------
(* Properties *)

C3_LexicalEntryPerChunk ==
    \A id \in ChunkIds :
        FtsCount(db, id) = IF ChunkKeyFree(db, id) THEN 0 ELSE 1

C3_Witness ==
    /\ db.chunks # {}
    /\ \E p \in Procs : Failed(p, "NewTextChunk") /\ proc[p].failedAt = "ctc_fts"

\* C4: NewDocument(id, overwrite) on an existing document with m chunks and k new
\* texts leaves exactly k chunks, and no chunk, FTS or embedding row of the old ones.
C4_OverwriteReplaces ==
    \A p \in Procs :
        (Succeeded(p, "NewDocument") /\ proc[p].overwrite /\ proc[p].existed) =>
            LET id == proc[p].docId
                old == ChunkIdsOfDoc(proc[p].pre, id)
            IN  /\ Cardinality(ChunkRowsOfDoc(db, id)) = Len(proc[p].texts)
                /\ \A c \in old :
                       /\ ChunkKeyFree(db, c)
                       /\ FtsCount(db, c) = 0
                       /\ \A m \in Models : EmbCount(db, m, c) = 0

C4_Witness ==
    \E p \in Procs :
        /\ Succeeded(p, "NewDocument") /\ proc[p].overwrite /\ proc[p].existed
        /\ Cardinality(ChunkIdsOfDoc(proc[p].pre, proc[p].docId)) = 2
        /\ Len(proc[p].texts) = 1

\* C5: a NewDocument or NewTextChunk that fails leaves the committed tables exactly
\* as they were when it started.
C5_FailedWriteRollsBack ==
    \A p \in Procs :
        (Failed(p, "NewDocument") \/ Failed(p, "NewTextChunk")) => db = proc[p].pre

C5_Witness ==
    \E p \in Procs :
        /\ Failed(p, "NewDocument")
        /\ proc[p].failedAt = "ctc_models"
        /\ proc[p].n = 1
        /\ proc[p].pre # EmptyDB

\* C6: when an overwriting NewDocument fails, the old document row and the chunk, FTS
\* and embedding rows of its chunks are all still there.
C6_FailedOverwriteKeepsOld ==
    \A p \in Procs :
        (Failed(p, "NewDocument") /\ proc[p].overwrite /\ proc[p].existed) =>
            LET id == proc[p].docId
                old == ChunkIdsOfDoc(proc[p].pre, id)
            IN  /\ id \in db.docs
                /\ ChunkRowsOfDoc(db, id) = ChunkRowsOfDoc(proc[p].pre, id)
                /\ \A c \in old :
                       /\ FtsCount(db, c) = 1
                       /\ \A m \in Models : EmbCount(db, m, c) = EmbCount(proc[p].pre, m, c)

C6_Witness ==
    \E p \in Procs :
        /\ Failed(p, "NewDocument") /\ proc[p].overwrite /\ proc[p].existed
        /\ proc[p].failedAt \in IndexingSteps
        /\ ChunkIdsOfDoc(proc[p].pre, proc[p].docId) # {}

\* C7: a request has removed a node from an ANN graph only if its delete transaction
\* has committed.
C7_AnnRemovalAfterCommit ==
    \A p \in Procs : proc[p].removed # {} => proc[p].committed

\* C8: after a successful DeleteDocument(id) served alone, no chunk id the document
\* owned is a node of any model's graph.
C8_DeleteClearsAnn ==
    \A p \in Procs :
        Succeeded(p, "DeleteDocument") =>
            \A c \in ChunkIdsOfDoc(proc[p].pre, proc[p].docId) :
                \A m \in Models : c \notin ann[m]

C8_Witness ==
    \E p \in Procs :
        /\ Succeeded(p, "DeleteDocument")
        /\ Cardinality(proc[p].removed) = 2

\* C9: a delete never fails at the ANN removal: with a chunk id missing from a graph,
\* DeleteDocument and DeleteTextChunk still go on to commit and answer 200, unless a
\* storage step fails.
C9_AnnMissIsNotAnError ==
    \A p \in Procs :
        (Finished(p, "DeleteDocument") \/ Finished(p, "DeleteTextChunk")) =>
            /\ proc[p].failedAt \notin {"del_ann", "dtc_ann"}
            /\ (proc[p].misses # {} /\ proc[p].failedAt # "commit") =>
                   /\ proc[p].status = 200
                   /\ proc[p].committed
                   /\ \A c \in proc[p].misses : ChunkKeyFree(db, c)

C9_Witness ==
    \E p \in Procs :
        /\ Succeeded(p, "DeleteDocument")
        /\ proc[p].misses # {}

\* C10: in every committed state each chunk has exactly one embedding row per model,
\* and an Embed call that returns no vector or two fails the request with nothing
\* committed.
C10_OneEmbeddingPerModel ==
    /\ \A c \in db.chunks : \A m \in Models : EmbCount(db, m, c.id) = 1
    /\ \A p \in Procs :
           proc[p].k # 1 => /\ proc[p].pc = "done"
                            /\ proc[p].status = 500
                            /\ db = proc[p].pre

C10_Witness ==
    \E p \in Procs :
        /\ proc[p].k = 2
        /\ Cardinality(proc[p].todo) = 1
        /\ proc[p].n = 1
        /\ db.chunks # {}

\* C11: when NewDocument or NewTextChunk fails after graph.Add was applied for a chunk
\* (for an earlier model of the chunk, or for an earlier chunk of the request), every
\* such node is still in its graph, while the rollback left no text_chunk row and no
\* text_embedding row with that chunk id.
C11_AnnInsertsSurviveRollback ==
    \A p \in Procs :
        (Failed(p, "NewDocument") \/ Failed(p, "NewTextChunk")) =>
            \A a \in proc[p].added :
                /\ a.chunk \in ann[a.model]
                /\ ChunkKeyFree(db, a.chunk)
                /\ \A m \in Models : EmbCount(db, m, a.chunk) = 0

C11_Witness ==
    \E p \in Procs :
        /\ Failed(p, "NewDocument")
        /\ proc[p].failedAt = "ctc_models"
        /\ Cardinality({a.chunk : a \in proc[p].added}) = 2
        /\ \E a \in proc[p].added : a.chunk = proc[p].cur

\* C12: a Search with a non-empty query runs the lexical query, and nothing else, when
\* the model id names the lexical engine; with a model id that is neither that nor a
\* configured embedding model with a graph it answers 400 and has called no embedding
\* provider, read no graph and run no query.
C12_SearchDispatch ==
    \A p \in Procs :
        (proc[p].op = "Search" /\ proc[p].query # "") =>
            /\ proc[p].modelId \in LexicalNames =>
                   /\ proc[p].calls \subseteq {"sql"}
                   /\ proc[p].failedAt # "model"
                   /\ (proc[p].pc = "done" /\ proc[p].status = 200) =>
                          \A i \in 1..Len(proc[p].results) :
                              [TextChunkID |-> proc[p].results[i].TextChunkID,
                               DocumentID |-> proc[p].results[i].DocumentID]
                                  \in searchWithBM25(db, proc[p].query)
            /\ (/\ proc[p].modelId \notin LexicalNames
                /\ (proc[p].modelId \notin Models \/ proc[p].modelId \notin DOMAIN ann)) =>
                   /\ proc[p].pc = "done"
                   /\ proc[p].status = 400
                   /\ proc[p].calls = {}
                   /\ proc[p].results = <<>>

C12_Witness ==
    \E p \in Procs :
        /\ Finished(p, "Search")
        /\ proc[p].modelId = "zz" /\ proc[p].query = "dog"
        /\ proc[p].status = 400
        /\ Cardinality(db.chunks) = 3 /\ \A m \in Models : ann[m] # {}

\* C13: a Search with an empty query answers 400 whatever the model id and the limit,
\* and has called no embedding provider, read no graph and run no query.
C13_EmptyQueryIsBadRequest ==
    \A p \in Procs :
        (proc[p].op = "Search" /\ proc[p].query = "") =>
            /\ proc[p].pc = "done"
            /\ proc[p].status = 400
            /\ proc[p].calls = {}
            /\ proc[p].annOut = <<>> /\ proc[p].results = <<>>

C13_Witness ==
    \E p \in Procs :
        /\ Finished(p, "Search")
        /\ proc[p].query = "" /\ proc[p].modelId = "m1" /\ proc[p].nParam = <<"2">>
        /\ db.chunks # {} /\ ann["m1"] # {}

\* C14 as stated: a search never fails on account of its limit; a limit that writes a
\* positive number is used as given, every other limit is replaced by the default.
C14_LimitUsedAsGiven ==
    \A p \in Procs :
        Searching(p) =>
            /\ proc[p].status # 400
            /\ proc[p].nDoc = IF LimitValue(proc[p].nParam) > 0
                              THEN LimitValue(proc[p].nParam) ELSE DefaultLimit
            /\ Len(proc[p].results) <= proc[p].nDoc

\* C14, amended: a search never fails on account of its limit; a limit that writes a
\* positive integer within the range of int is used as given, and every other limit
\* (0, negative, not a number, or a number beyond the range of int) is replaced by the
\* default.
C14_LimitFallback ==
    \A p \in Procs :
        Searching(p) =>
            /\ proc[p].status # 400
            /\ proc[p].nDoc = IF /\ LimitValue(proc[p].nParam) > 0
                                 /\ LimitValue(proc[p].nParam) <= MaxInt
                              THEN LimitValue(proc[p].nParam) ELSE DefaultLimit
            /\ Len(proc[p].results) <= proc[p].nDoc

C14_Witness ==
    \E p \in Procs :
        /\ Finished(p, "Search") /\ proc[p].status = 200
        /\ proc[p].modelId = "m1"
        /\ proc[p].nParam = <<"9", "9">>
        /\ proc[p].nDoc = DefaultLimit
        /\ Len(proc[p].results) = 3

\* C15: a vector Search that answers 200 returns at most nDoc results, each a chunk of
\* the graph's result with score = -(its distance there), in non-increasing score order.
C15_VectorSearchOrder ==
    \A p \in Procs :
        (Finished(p, "Search") /\ proc[p].modelId \in Models /\ proc[p].status = 200) =>
            LET r == proc[p].results
                out == proc[p].annOut
            IN  /\ Len(r) <= proc[p].nDoc
                /\ \A i \in 1..Len(r) :
                       \E j \in 1..Len(out) :
                           /\ out[j].Key = r[i].TextChunkID
                           /\ r[i].Score = 0 - out[j].Distance
                /\ \A i, j \in 1..Len(r) : i # j => r[i].TextChunkID # r[j].TextChunkID
                /\ Descending(r)

C15_Witness ==
    \E p \in Procs :
        /\ Finished(p, "Search") /\ proc[p].modelId \in Models /\ proc[p].status = 200
        /\ Cardinality(ann[proc[p].modelId]) = 3
        /\ proc[p].nDoc = 2
        /\ Len(proc[p].results) = 2
        /\ proc[p].results[1].Score > proc[p].results[2].Score

\* C16: in the results of a vector Search, two results of equal score are in the
\* order in which the graph returned their chunk ids.
C16_TiesKeepAnnOrder ==
    \A p \in Procs :
        (Finished(p, "Search") /\ proc[p].modelId \in Models /\ proc[p].status = 200) =>
            LET r == proc[p].results
            IN  \A i, j \in 1..Len(r) :
                    (i < j /\ r[i].Score = r[j].Score) =>
                        PositionIn(proc[p].annOut, r[i].TextChunkID)
                            < PositionIn(proc[p].annOut, r[j].TextChunkID)

\* C17: a lexical Search that answers 200 returns at most nDoc results, and their
\* scores are in non-increasing order (a higher score is a better match).
C17_LexicalScoresDescending ==
    \A p \in Procs :
        (Finished(p, "Search") /\ proc[p].modelId \in LexicalNames /\ proc[p].status = 200) =>
            /\ Len(proc[p].results) <= proc[p].nDoc
            /\ Descending(proc[p].results)

\* C18: the list_models tool returns "BM25" and every configured embedding model id
\* and nothing else, and Search takes every one of these names as a model id: no
\* Search with one of them and a query answers "model not found".
C18_ListedModelsAreSearchable ==
    \A p \in Procs :
        /\ (Finished(p, "ListModels") /\ proc[p].status = 200) =>
               /\ proc[p].listed = {"BM25"} \cup Models
               /\ \A name \in proc[p].listed : SearchBackend(name) # "none"
        /\ (/\ proc[p].op = "Search" /\ proc[p].query # ""
            /\ proc[p].modelId \in ListModelsOutput(ListEmbeddingModels)) =>
               proc[p].failedAt # "model"

C18_Witness ==
    \E p \in Procs :
        /\ Finished(p, "ListModels") /\ proc[p].status = 200
        /\ Cardinality(proc[p].listed) = 3

\* C19: WithTx ends the transaction it began exactly once on every exit path: no
\* request that has left WithTx holds a transaction or the write lock; it committed
\* exactly when the callback returned no error and did not panic and tx.Commit
\* succeeded; a callback error or panic is rolled back; a commit error is the
\* operation's error (status 500).
C19_WithTxEndsOnce ==
    \A p \in Procs :
        /\ proc[p].pc \in {"idle", "done"} => tx[p] = NoTx /\ wlock # p
        /\ tx[p] # NoTx => proc[p].txBegun = 1 /\ proc[p].txEnded = 0
        /\ proc[p].pc = "done" => proc[p].txEnded = proc[p].txBegun
        /\ proc[p].committed <=>
               /\ proc[p].pc = "done" /\ proc[p].txBegun = 1
               /\ proc[p].failedAt = "" /\ ~proc[p].panicked
        /\ (proc[p].pc = "done" /\ proc[p].txBegun = 1 /\ ~proc[p].committed) =>
               db = proc[p].pre
        /\ proc[p].failedAt = "commit" => proc[p].status = 500
        /\ proc[p].panicked => proc[p].status # OkStatus(proc[p])

C19_Witness ==
    \E p \in Procs :
        /\ Finished(p, "NewDocument") /\ proc[p].panicked
        /\ proc[p].overwrite /\ proc[p].existed
        /\ proc[p].n = 1

C21_AddChunkUnknownDocument ==
    \A p \in Procs :
        (Finished(p, "NewTextChunk") /\ proc[p].docId \notin proc[p].pre.docs) =>
            /\ proc[p].status = IF proc[p].failedAt = "query" THEN 500 ELSE 404
            /\ proc[p].failedAt \in {"ntc_get", "query"}
            /\ db = proc[p].pre /\ ann = proc[p].preAnn
            /\ proc[p].txBegun = 0 /\ proc[p].cur = Idle.cur
            /\ proc[p].k = Idle.k /\ proc[p].added = {}

C21_Witness ==
    \E p \in Procs :
        /\ Finished(p, "NewTextChunk") /\ proc[p].status = 404
        /\ proc[p].docId \notin db.docs
        /\ db.docs # {} /\ db.chunks # {}

\* C22: DeleteTextChunk of chunk c removes c's embedding rows, its FTS row and its
\* chunk row together (committed) or leaves all the tables as they were (not
\* committed); the document rows, and the chunk row, FTS rows, embedding rows and
\* ANN nodes of every other chunk are as they were when the request started.
C22_DeleteChunkAtomicAndFramed ==
    \A p \in Procs :
        Finished(p, "DeleteTextChunk") =>
            LET c == proc[p].textId
                pre == proc[p].pre
            IN  /\ proc[p].committed =>
                       /\ ChunkKeyFree(db, c) /\ FtsCount(db, c) = 0
                       /\ \A m \in Models : EmbCount(db, m, c) = 0
                /\ ~proc[p].committed => db = pre
                /\ db.docs = pre.docs
                /\ \A id \in ChunkIds \ {c} :
                       /\ {x \in db.chunks : x.id = id} = {x \in pre.chunks : x.id = id}
                       /\ FtsCount(db, id) = FtsCount(pre, id)
                       /\ \A m \in Models : EmbCount(db, m, id) = EmbCount(pre, m, id)
                       /\ \A m \in DOMAIN ann : id \in ann[m] <=> id \in proc[p].preAnn[m]

C22_Witness ==
    \E p \in Procs :
        /\ Succeeded(p, "DeleteTextChunk")
        /\ ~ChunkKeyFree(proc[p].pre, proc[p].textId)
        /\ FtsCount(proc[p].pre, proc[p].textId) = 1
        /\ \E m \in Models : EmbCount(proc[p].pre, m, proc[p].textId) = 1
        /\ \E id \in ChunkIds \ {proc[p].textId}, m \in DOMAIN ann :
               /\ ~ChunkKeyFree(db, id) /\ EmbCount(db, m, id) = 1 /\ id \in ann[m]

\* the graphs whose structure the next step of request p writes (graph.Add,
\* graph.Delete) and reads (SearchWithDistance)
GraphWrites(p) ==
    CASE proc[p].pc = "ctc_models" -> proc[p].todo
      [] proc[p].pc = "dtc_ann" -> DOMAIN ann
      [] proc[p].pc = "del_ann" /\ proc[p].ids # {} -> DOMAIN ann
      [] OTHER -> {}

GraphReads(p) ==
    IF proc[p].pc = "s_ann" THEN {proc[p].modelId} ELSE {}

\* C23: the calls on one model's graph exclude each other: whenever a request is
\* about to run SearchWithDistance, Add or Delete on a graph, no other request is
\* about to run Add or Delete on the same graph (calls that are enabled together
\* are ordered by nothing and can run inside the graph at the same time).
C23_GraphCallsExclusive ==
    \A p, q \in Procs :
        p # q => GraphWrites(p) \cap (GraphWrites(q) \cup GraphReads(q)) = {}

\* the part of it that does hold: Add and Delete run inside a transaction that has
\* written and so holds the write lock of the database
C23_MutatorsExclusive ==
    \A p, q \in Procs : p # q => GraphWrites(p) \cap GraphWrites(q) = {}

\* C24: when Close has returned, graph.Save was called for every model's graph, a
\* failed save did not stop the others (each graph was either written, as it was
\* at the call, or its failure logged), the database was closed (or its failure
\* logged), and Close returned nil.
C24_CloseSavesEveryGraph ==
    srv.phase = "stopped" =>
        /\ {s.model : s \in srv.saved} \cup srv.failed = DOMAIN ann
        /\ {s.model : s \in srv.saved} \cap srv.failed = {}
        /\ Cardinality(srv.saved) = Cardinality({s.model : s \in srv.saved})
        /\ srv.dbClose \in {"closed", "failed"}
        /\ srv.result = "nil"

C24_Witness ==
    /\ srv.phase = "stopped"
    /\ srv.failed # {} /\ srv.saved # {}
    /\ srv.dbClose = "closed"

\* C25: Close runs once, and from the moment it starts saving no request changes a
\* graph: the graphs stay as Close found them, so the node of every chunk whose
\* creation was answered 201 is in the file of every graph that was saved.
C25_NoMutationAfterFlush ==
    /\ srv.flushes <= 1
    /\ srv.phase \in {"closing", "stopped"} =>
           /\ ann = srv.atFlush
           /\ \A p \in Procs : \A a \in proc[p].added, s \in srv.saved :
                  (proc[p].pc = "done" /\ proc[p].status = 201 /\ a.model = s.model)
                      => a.chunk \in s.nodes

\* C26: decoding what the encoder returned gives a vector of the same length whose
\* elements have the bit patterns of the input in the same order, and in the bytes
\* each value is stored least-significant byte first.
C26_CodecRoundTrip ==
    calc.fn = "roundtrip" =>
        /\ ~calc.out.nil
        /\ Len(calc.out.v) = Len(calc.floats)
        /\ \A i \in 1..Len(calc.floats) :
               /\ calc.out.v[i] = calc.floats[i]
               /\ calc.bytes[4 * i - 3] + 256 * calc.bytes[4 * i - 2] = calc.floats[i].lo
               /\ calc.bytes[4 * i - 1] + 256 * calc.bytes[4 * i] = calc.floats[i].hi

C26_Witness ==
    /\ calc.fn = "roundtrip" /\ Len(calc.floats) = 2
    /\ calc.floats[1] = Bits(16457, 4048) /\ calc.floats[2] = Bits(32768, 0)
    /\ calc.bytes = <<208, 15, 73, 64, 0, 0, 0, 128>>

\* C27: encoding N values gives 4*N bytes; decoding a buffer whose length is not a
\* multiple of 4 gives nil, one of length 4*N gives N values, and an empty buffer
\* gives an empty slice that is not nil.
C27_CodecLengths ==
    /\ calc.fn \in {"encode", "roundtrip"} => Len(calc.bytes) = 4 * Len(calc.floats)
    /\ calc.fn \in {"decode", "roundtrip"} =>
           /\ Len(calc.bytes) % 4 # 0 => calc.out = NilSlice
           /\ Len(calc.bytes) % 4 = 0 =>
                  ~calc.out.nil /\ 4 * Len(calc.out.v) = Len(calc.bytes)
           /\ calc.bytes = <<>> => calc.out = Slice(<<>>)

C27_Witness ==
    /\ calc.fn = "decode" /\ Len(calc.bytes) = 3 /\ calc.out.nil

\* the 2n strings r1..rn, Normalize(r1)..Normalize(rn) of a text
RawThenNormalized(text) ==
    LET r == Tokenize(text)
        n == Len(r)
    IN  [i \in 1..(2 * n) |-> IF i <= n THEN r[i] ELSE Normalize(r[i - n])]

\* C28: the segContent derived from a text is the single-space join of its raw
\* tokens followed by their normalized forms, in that order, and it depends on the
\* text only.
C28_SegContentRawThenNormalized ==
    calc.fn = "segContent" => calc.out = Join(RawThenNormalized(calc.text), " ")

C28_Witness ==
    /\ calc.fn = "segContent" /\ calc.text = "the Fox"
    /\ Tokenize(calc.text) = <<"Fox">>
    /\ calc.out = "Fox fox"

C30_CaseKeptWithoutFolding ==
    (calc.fn = "normalize" /\ ~calc.useJp2t /\ ~calc.useT2s) =>
        calc.out = NFKC(calc.text)

\* C31: Tokenize of the empty text is the empty sequence; with filtering enabled
\* the output is the unfiltered output with exactly the stop-word tokens removed,
\* in the same order and never longer; without filtering it is the unfiltered
\* output.
C31_FilterIsSubsequence ==
    calc.fn = "tokenize" =>
        LET NotStop(tok) == tok \notin StopWords
        IN  /\ calc.text = "" => calc.out = <<>>
            /\ calc.filterStopWord => calc.out = SelectSeq(calc.raw, NotStop)
            /\ ~calc.filterStopWord => calc.out = calc.raw
            /\ Len(calc.out) <= Len(calc.raw)

C31_Witness ==
    /\ calc.fn = "tokenize" /\ calc.filterStopWord
    /\ calc.raw = <<"a", "dog", "the", "Fox">>
    /\ calc.out = <<"dog", "Fox">>

\* the chunk rows of a document, as the set of their contents
ContentsOfDoc(s, docId) == {c.content : c \in ChunkRowsOfDoc(s, docId)}

\* C32: Summarize is called only when ai_sum is "true" or "1" and the request has
\* texts. When it fails the request goes on with the k texts it was given, and a
\* request that then succeeds has indexed exactly those k chunks; when it succeeds
\* the generated text is appended, and a request that then succeeds has indexed
\* k+1 chunks, the generated one last.
C32_SummarizeIsOptional ==
    \A p \in Procs :
        (proc[p].op = "NewDocument" /\ proc[p].failedAt # "bind") =>
            LET k == Len(proc[p].given)
                rows == ChunkRowsOfDoc(db, proc[p].docId)
            IN  /\ proc[p].summarize # "skipped" =>
                       proc[p].aiSum \in {"true", "1"} /\ k > 0
                /\ proc[p].summarize \in {"skipped", "failed"} =>
                       proc[p].texts = proc[p].given
                /\ proc[p].summarize = "ok" =>
                       proc[p].texts = proc[p].given \o <<SummaryText>>
                /\ Succeeded(p, "NewDocument") =>
                       /\ Cardinality(rows) =
                              IF proc[p].summarize = "ok" THEN k + 1 ELSE k
                       /\ ContentsOfDoc(db, proc[p].docId) =
                              {proc[p].texts[i] : i \in 1..Len(proc[p].texts)}
                       /\ proc[p].summarize = "ok" =>
                              \E last \in rows :
                                  /\ last.content = SummaryText
                                  /\ \A c \in rows : c.id <= last.id

C32_Witness ==
    \E p \in Procs :
        /\ Succeeded(p, "NewDocument") /\ proc[p].summarize = "failed"
        /\ Len(proc[p].given) = 2
        /\ Cardinality(ChunkRowsOfDoc(db, proc[p].docId)) = 2

\* the embedding rows and FTS rows of a set of chunk ids
EmbRowsOf(s, ids) == {e \in DOMAIN s.emb : e.chunk \in ids}
FtsRowsOf(s, ids) == {f \in DOMAIN s.fts : f.id \in ids}

\* C33: inside the transaction of a document delete, at each statement the rows
\* that the later statements need are still there: the chunk ids are read from
\* the untouched tables, the chunk rows are still present when the embedding rows
\* and then the FTS rows go, the document row is still present when the chunk
\* rows go and is deleted last, after which the graphs are updated with the ids
\* that were read first.
C33_DeleteInDependencyOrder ==
    \A p \in Procs :
        (proc[p].pc \in {"del_emb", "del_fts", "del_chunks", "del_doc", "del_ann"}
             /\ proc[p].status = 0) =>
            LET v == View(p)
                pre == proc[p].pre
                d == proc[p].docId
                all == ChunkIdsOfDoc(pre, d)
            IN  /\ proc[p].ids \subseteq all
                /\ proc[p].pc # "del_ann" => proc[p].ids = all
                /\ proc[p].pc = "del_emb" => v = pre
                /\ proc[p].pc = "del_fts" =>
                       /\ EmbRowsOf(v, all) = {}
                       /\ v.fts = pre.fts /\ v.chunks = pre.chunks /\ v.docs = pre.docs
                /\ proc[p].pc = "del_chunks" =>
                       /\ EmbRowsOf(v, all) = {} /\ FtsRowsOf(v, all) = {}
                       /\ v.chunks = pre.chunks /\ v.docs = pre.docs
                /\ proc[p].pc = "del_doc" =>
                       /\ EmbRowsOf(v, all) = {} /\ FtsRowsOf(v, all) = {}
                       /\ ChunkRowsOfDoc(v, d) = {} /\ v.docs = pre.docs
                /\ proc[p].pc = "del_ann" =>
                       /\ EmbRowsOf(v, all) = {} /\ FtsRowsOf(v, all) = {}
                       /\ ChunkRowsOfDoc(v, d) = {} /\ d \notin v.docs

C33_Witness ==
    \E p \in Procs :
        /\ proc[p].pc = "del_chunks" /\ proc[p].op = "DeleteDocument"
        /\ Cardinality(proc[p].ids) = 2
        /\ EmbRowsOf(proc[p].pre, proc[p].ids) # {}
        /\ FtsRowsOf(proc[p].pre, proc[p].ids) # {}
        /\ Cardinality(ChunkRowsOfDoc(View(p), proc[p].docId)) = 2

\* C34: in every committed state of the tables, whatever the interleaving of the
\* requests, the document of every chunk row exists.
C34_ChunksHaveDocuments ==
    \A c \in db.chunks : c.doc \in db.docs

\* C35: whenever no request is being served, every committed text_embedding row
\* of a model has a node keyed by its chunk id in that model's graph.
C35_EmbeddingRowsHaveNodes ==
    (\A p \in Procs : proc[p].pc \in {"idle", "done"}) =>
        \A e \in DOMAIN db.emb : e.chunk \in ann[e.model]

\* C36: every item of a vector Search is a chunk id of the graph's result whose
\* text_chunk row and document row existed when the rows were read, each such id
\* appears once, and an id of the graph's result that has no row is left out, so
\* the items can be fewer than the graph returned.
C36_HydrationDropsMissingRows ==
    \A p \in Procs :
        (Finished(p, "Search") /\ proc[p].modelId \in Models /\ proc[p].status = 200) =>
            LET r == proc[p].results
                live == {key \in Keys(proc[p].annOut) :
                            \E c \in proc[p].pre.chunks : c.id = key /\ c.doc \in proc[p].pre.docs}
            IN  /\ {r[i].TextChunkID : i \in 1..Len(r)} = live
                /\ Len(r) = Cardinality(live)
                /\ Len(r) <= Len(proc[p].annOut)
                /\ \A i \in 1..Len(r) :
                       \E c \in proc[p].pre.chunks :
                           c.id = r[i].TextChunkID /\ c.doc = r[i].DocumentID

C36_Witness ==
    \E p \in Procs :
        /\ Finished(p, "Search") /\ proc[p].modelId \in Models /\ proc[p].status = 200
        /\ Len(proc[p].annOut) = 3
        /\ Len(proc[p].results) = 2
        /\ \E i \in 1..3 : ChunkKeyFree(proc[p].pre, proc[p].annOut[i].Key)

\* C37: when two NewDocument requests for the same id are both finished, the
\* committed chunks of that document are never chunks of both, and hold no chunk
\* of a call that did not commit; a call that committed inserted one chunk per
\* text. When these two are the only requests admitted so far, the chunks are
\* exactly those one single call inserted (or, when neither committed, the chunks
\* the document had before), and the document row exists as soon as one committed.
C37_SameIdCreatesDoNotMix ==
    \A p, q \in Procs :
        (p # q /\ Finished(p, "NewDocument") /\ Finished(q, "NewDocument")
             /\ proc[p].docId = proc[q].docId) =>
            LET d == proc[p].docId
                now == ChunkIdsOfDoc(db, d)
            IN  /\ now \cap proc[p].made = {} \/ now \cap proc[q].made = {}
                /\ ~proc[p].committed => now \cap proc[p].made = {}
                /\ proc[p].committed => Cardinality(proc[p].made) = Len(proc[p].texts)
                /\ proc[p].made \cap proc[q].made = {}
                /\ (left + 2 = MaxRequests) =>
                      /\ \/ proc[p].committed /\ now = proc[p].made
                         \/ proc[q].committed /\ now = proc[q].made
                         \/ /\ ~proc[p].committed /\ ~proc[q].committed
                            /\ now = ChunkIdsOfDoc(Indexed, d)
                      /\ (proc[p].committed \/ proc[q].committed) => d \in db.docs

C37_Witness ==
    \E p, q \in Procs :
        /\ p # q /\ Succeeded(p, "NewDocument") /\ Succeeded(q, "NewDocument")
        /\ proc[p].docId = proc[q].docId
        /\ proc[p].made # {} /\ proc[q].made # {}
        /\ ChunkIdsOfDoc(db, proc[p].docId) = proc[q].made

\* C38: NewDocument without overwrite on an id whose row exists does not answer
\* 201, and leaves the tables and every graph as they were: it fails at the
\* insert of the document row (or earlier), before any chunk id is drawn, any
\* chunk is inserted, any embedding is requested or any node is added.
C38_CreateExistingFails ==
    \A p \in Procs :
        (Finished(p, "NewDocument") /\ ~proc[p].overwrite
             /\ proc[p].docId \in proc[p].pre.docs) =>
            /\ proc[p].status \in {400, 500}
            /\ proc[p].failedAt \in {"bind", "begin", "nd_insert"}
            /\ db = proc[p].pre /\ ann = proc[p].preAnn
            /\ proc[p].cur = Idle.cur /\ proc[p].made = {}
            /\ proc[p].k = Idle.k /\ proc[p].added = {} /\ proc[p].removed = {}

C38_Witness ==
    \E p \in Procs :
        /\ Finished(p, "NewDocument") /\ ~proc[p].overwrite
        /\ proc[p].failedAt = "nd_insert" /\ proc[p].status = 500
        /\ Len(proc[p].texts) = 1
        /\ Cardinality(ChunkRowsOfDoc(db, proc[p].docId)) = 2
        /\ \A m \in Models : Cardinality(ann[m]) = 2

\* the pcs of deleteDocumentInternal
DeletePcs == {"del_list", "del_emb", "del_fts", "del_chunks", "del_doc", "del_ann"}

\* C39: DeleteDocument of an id that has no row answers 200 (500 only when a
\* storage step fails) and changes neither the tables nor any graph. NewDocument
\* of an id that has no row has the same effect with overwrite as without: it
\* never enters the delete, removes no node, and either commits the document row
\* and one chunk per text on top of the rows that were there, or leaves the
\* tables as they were.
C39_AbsentIdDeleteIsNoOp ==
    \A p \in Procs :
        /\ (Finished(p, "DeleteDocument") /\ proc[p].docId \notin proc[p].pre.docs) =>
               /\ proc[p].status = IF proc[p].failedAt = "" THEN 200 ELSE 500
               /\ db = proc[p].pre /\ ann = proc[p].preAnn
               /\ proc[p].removed = {} /\ proc[p].misses = {}
        /\ (proc[p].op = "NewDocument" /\ proc[p].docId \notin proc[p].pre.docs) =>
               /\ proc[p].pc \notin DeletePcs /\ proc[p].failedAt \notin DeletePcs
               /\ proc[p].removed = {} /\ proc[p].misses = {} /\ proc[p].ids = {}
               /\ Finished(p, "NewDocument") =>
                      IF proc[p].committed
                      THEN /\ db.docs = proc[p].pre.docs \cup {proc[p].docId}
                           /\ ChunkIdsOfDoc(db, proc[p].docId) = proc[p].made
                           /\ Cardinality(proc[p].made) = Len(proc[p].texts)
                           /\ {c \in db.chunks : c.doc # proc[p].docId} = proc[p].pre.chunks
                      ELSE db = proc[p].pre

C39_Witness ==
    \E p \in Procs :
        /\ Succeeded(p, "DeleteDocument")
        /\ proc[p].docId \notin proc[p].pre.docs
        /\ db.docs # {} /\ db.chunks # {}
        /\ \E m \in Models : ann[m] # {}

\* C40: with an embedding model configured and listed under the id "bm25", a
\* Search whose model id is "bm25" in any letter case runs the lexical query only:
\* it calls no embedding provider and reads no graph, and no Search ever reads the
\* graph of that model.
C40_LexicalNameShadowsModel ==
    \A p \in Procs :
        /\ (Finished(p, "ListModels") /\ proc[p].status = 200) =>
               LexicalNames \subseteq proc[p].listed
        /\ (proc[p].op = "Search" /\ proc[p].query # ""
                /\ proc[p].modelId \in LexicalNames) =>
               /\ proc[p].pc \in {"s_bm25", "done"}
               /\ proc[p].calls \subseteq {"sql"}
               /\ proc[p].annOut = <<>> /\ proc[p].failedAt # "model"
               /\ (proc[p].pc = "done" /\ proc[p].status = 200) =>
                      \A i \in 1..Len(proc[p].results) :
                          [TextChunkID |-> proc[p].results[i].TextChunkID,
                           DocumentID |-> proc[p].results[i].DocumentID]
                              \in searchWithBM25(proc[p].pre, proc[p].query)
        /\ (proc[p].op = "Search" /\ proc[p].pc \in {"s_embed", "s_ann", "s_sql"}) =>
               proc[p].modelId \in srv.embeddingModels \ {"bm25"}

C40_Witness ==
    \E p \in Procs :
        /\ Finished(p, "Search") /\ proc[p].modelId = "bm25" /\ proc[p].status = 200
        /\ "bm25" \in srv.embeddingModels /\ ann["bm25"] # {}
        /\ SearchBackend(proc[p].modelId) = "bm25"
        /\ proc[p].calls = {"sql"} /\ Len(proc[p].results) = 2

====
